---- MODULE Spec2Model ----
(***************************************************************************)
(* Model of the audio-transcriber scripts:                                 *)
(*   transcribe_faster_whisper.py  (local model + k-means diarization)     *)
(*   transcribe.py                 (cloud speech API)                      *)
(*   audio.py                      (mp4 -> m4a converter)                  *)
(*                                                                         *)
(* Conventions.  Times are integers in milliseconds (the source uses float *)
(* seconds; 0.5 s is 500).  A Python str that the code inspects character  *)
(* by character (word texts, accumulated text) is a sequence of            *)
(* one-character strings; it becomes a TLA+ string when it is printed.     *)
(* Python's None is the string "None" (what an f-string prints for it).    *)
(***************************************************************************)
EXTENDS Integers, Sequences, FiniteSets, TLC

(* ---------------------------------------------------------------------- *)
(* Bounds of the exploration                                               *)
(* ---------------------------------------------------------------------- *)
MaxSegs == 2        \* segments the oracle yields in one run
MaxSamples == 130   \* longest waveform (in samples) of the diarization spec
MaxWins == 3        \* longest window list of the aligner spec
MaxGWords == 3      \* words in a cloud response

(* ---------------------------------------------------------------------- *)
(* Program constants                                                       *)
(* ---------------------------------------------------------------------- *)
num_speakers == 6
window_size == 500

None == "None"

(* ---------------------------------------------------------------------- *)
(* Text helpers: Python str operations on character sequences              *)
(* ---------------------------------------------------------------------- *)
RECURSIVE Str(_)
Str(cs) == IF cs = <<>> THEN "" ELSE Head(cs) \o Str(Tail(cs))

(* characters str.strip() removes (those with str.isspace): space, tab,     *)
(* line feed, carriage return, form feed, then vertical tab, U+001C..U+001F,*)
(* U+0085, U+00A0 and U+1680 written as the characters themselves.  The      *)
(* remaining ones (U+2000..U+200A, U+2028, U+2029, U+202F, U+205F, U+3000)    *)
(* cannot be written in a string of this module and occur in no text here.   *)
Whitespace ==
    {" ", "\t", "\n", "\r", "\f",
     "", "", "", "", "", "", " ", " "}

RECURSIVE LStrip(_)
LStrip(cs) == IF cs # <<>> /\ Head(cs) \in Whitespace THEN LStrip(Tail(cs)) ELSE cs

RECURSIVE RStrip(_)
RStrip(cs) ==
    IF cs # <<>> /\ cs[Len(cs)] \in Whitespace
    THEN RStrip(SubSeq(cs, 1, Len(cs) - 1)) ELSE cs

Strip(cs) == RStrip(LStrip(cs))

Pad2(n) == IF n < 10 THEN "0" \o ToString(n) ELSE ToString(n)

Pad3(n) == IF n < 10 THEN "00" \o ToString(n)
           ELSE IF n < 100 THEN "0" \o ToString(n) ELSE ToString(n)

(* format_duration(seconds), the argument given in milliseconds *)
format_duration(ms) ==
    LET hours == ms \div 3600000
        remainder == ms % 3600000
        minutes == remainder \div 60000
        seconds == remainder % 60000
    IN  Pad2(hours) \o ":" \o Pad2(minutes) \o ":"
          \o Pad2(seconds \div 1000) \o "." \o Pad3(seconds % 1000)

(* ---------------------------------------------------------------------- *)
(* Segment-speaker alignment (transcribe_audio, the inner search loop)     *)
(* ---------------------------------------------------------------------- *)
(* variant: the window end counted as inside the window *)
Contains_closedEnd(w, t) == t >= w[1] /\ t <= w[2]

Contains(w, t) == t >= w[1] /\ t < w[2]

RECURSIVE FirstMatch(_, _)
FirstMatch(wins, t) ==
    IF wins = <<>> THEN None
    ELSE IF Contains(Head(wins), t) THEN Head(wins)[3]
    ELSE FirstMatch(Tail(wins), t)

(* variant: a default speaker "1" when there are no windows *)
resolve_speaker_default(t, speaker_segments) ==
    IF speaker_segments # <<>> THEN FirstMatch(speaker_segments, t) ELSE "1"

resolve_speaker(t, speaker_segments) ==
    IF speaker_segments # <<>> THEN FirstMatch(speaker_segments, t) ELSE None

(* ---------------------------------------------------------------------- *)
(* Feature extraction and clustering (transcribe_faster_whisper.py)        *)
(* ---------------------------------------------------------------------- *)
(* An audio file is [readable, rate, samples]: whether wavfile.read        *)
(* succeeds, the sample rate and the number of samples per channel.        *)

(* Number of spectrogram columns, Sxx.shape[1]; -1 when the call raises.    *)
(* scipy.signal.spectrogram: nperseg is cut to the input length, the        *)
(* default overlap is nperseg // 8, no padding, so                          *)
(* columns = (samples - noverlap) // (nperseg - noverlap).                  *)
SpectrogramColumns(rate, samples) ==
    LET asked == (window_size * rate) \div 1000
        nperseg == IF asked > samples THEN samples ELSE asked
        noverlap == nperseg \div 8
    IN  IF samples = 0 \/ nperseg < 1 THEN -1
        ELSE (samples - noverlap) \div (nperseg - noverlap)

(* extract_audio_features: the number of feature rows, -1 when it raises *)
extract_audio_features(audio) ==
    IF ~audio.readable THEN -1 ELSE SpectrogramColumns(audio.rate, audio.samples)

(* kmeans draws k distinct observations as its initial centroids, so it    *)
(* raises ValueError when there are fewer than k observations               *)
KMeansRaises(n, k) == n < k

(* the "Convert to time segments" loop *)
TimeSegments(labels) ==
    [i \in 1..Len(labels) |->
        <<(i - 1) * window_size, i * window_size, ToString(labels[i] + 1)>>]

(* perform_diarization(audio_path): clustering is what kmeans and vq do    *)
(* for the features, [raises, labels] with one label in 0..k-1 for each     *)
(* observation.  A failure of feature extraction or of the clustering is    *)
(* caught and gives the empty list; otherwise the labels become windows.    *)
DiarizationFails(audio, clustering) ==
    \/ extract_audio_features(audio) < 0
    \/ KMeansRaises(extract_audio_features(audio), num_speakers)
    \/ clustering.raises

perform_diarization(audio, clustering) ==
    IF DiarizationFails(audio, clustering) THEN <<>>
    ELSE TimeSegments(clustering.labels)

(* ---------------------------------------------------------------------- *)
(* Transcript lines of transcribe_faster_whisper.py                        *)
(* ---------------------------------------------------------------------- *)
(* the word loop of transcribe_audio: words joined by one space *)
RECURSIVE JoinFrom(_, _)
JoinFrom(current_text, words) ==
    IF words = <<>> THEN current_text
    ELSE JoinFrom((IF current_text # <<>> THEN current_text \o <<" ">> ELSE current_text)
                      \o Head(words),
                  Tail(words))

SegmentText(segment) == JoinFrom(<<>>, segment.words)

SpeakerText(speaker) == IF speaker # None THEN "Speaker " \o speaker ELSE "Unknown"

(* print_transcript_line: the fields of the line it writes *)
TranscriptLine(time, text, speaker) ==
    [time |-> format_duration(time), speaker |-> SpeakerText(speaker), text |-> text]

ConsoleLine(l) == l.time \o ";" \o l.speaker \o ";" \o Str(l.text)

CsvRow(l) == <<l.time, l.speaker, Str(l.text)>>

(* one loop iteration of transcribe_audio: whether the segment is printed, *)
(* and the line printed for it                                              *)
SegmentEmits(segment) == Strip(SegmentText(segment)) # <<>>

SegmentLine(segment, speaker_segments) ==
    TranscriptLine(segment.start, Strip(SegmentText(segment)),
                   resolve_speaker(segment.start, speaker_segments))

(* ---------------------------------------------------------------------- *)
(* State                                                                   *)
(* ---------------------------------------------------------------------- *)
VARIABLES
    script,       \* which script runs: "whisper", "google", "audio", or a function spec
    pc,           \* position of the run
    argc,         \* len(sys.argv)
    TEMP_DIR,     \* the global: None or "tmp"
    fsDir,        \* the temporary directory exists on disk
    fsFiles,      \* files in the temporary directory
    stdout,       \* lines written to standard output
    stderr,       \* messages written to standard error
    exitStatus,   \* -1 until exit is requested, then the status
    outFile,      \* the output csv: [exists, rows]
    outFile0,     \* the output csv before the run
    csvOpened,    \* the run has opened the output csv
    audio,        \* the converted audio: [readable, rate, samples]
    windows,      \* speaker_segments
    segs,         \* segments the oracle has yielded so far
    oracleEnded,  \* the segment generator is exhausted
    start_time,   \* transcribe_audio local: start of the last segment
    speaker,      \* transcribe_audio local: speaker of the last segment
    lines,        \* fields of every transcript line written to the console
    response,     \* words of the cloud response (transcribe.py)
    cloud_url,    \* transcribe.py: the name cloud_url is bound
    clustering,   \* what kmeans and vq do for the features of the audio
    faults        \* kinds of the calls that raised or asked to exit

vars == <<script, pc, argc, TEMP_DIR, fsDir, fsFiles, stdout, stderr, exitStatus,
          outFile, outFile0, csvOpened, audio, windows, segs, oracleEnded,
          start_time, speaker, lines, response, cloud_url, clustering, faults>>

fsVars == <<TEMP_DIR, fsDir, fsFiles>>
csvVars == <<outFile, csvOpened>>
loopVars == <<segs, oracleEnded, start_time, speaker, lines>>
inputVars == <<script, argc, outFile0, audio, clustering>>
googleVars == <<response, cloud_url>>

(* ---------------------------------------------------------------------- *)
(* Inputs                                                                  *)
(* ---------------------------------------------------------------------- *)
HeaderLine == "Time;Speaker;Text"
HeaderRow == <<"Time", "Speaker", "Text">>

(* the output csv: the whole rows it holds, and whether a part of a further *)
(* row follows them (cut)                                                   *)
Absent == [exists |-> FALSE, rows |-> <<>>, cut |-> FALSE]
OldTranscript ==
    [exists |-> TRUE, rows |-> <<HeaderRow, <<"00:00:00.000", "Speaker 1", "old">>>>,
     cut |-> FALSE]

W_hi == <<"h", "i">>
W_yo == <<" ", "y", "o">>
W_blank == <<" ">>
W_tab == <<"\t">>

(* word lists of a segment: a whitespace word, two words *)
WordLists == {<<W_tab>>, <<W_yo, W_hi>>}

(* segment starts: in the first window, in the second, past the end of six  *)
(* windows                                                                  *)
StartTimes == {0, 700, 3200}

Segments == [start : StartTimes, words : WordLists]

(* audio files of a run: unreadable, too short to cluster, six windows *)
RunAudio == {[readable |-> FALSE, rate |-> 16, samples |-> 48],
             [readable |-> TRUE, rate |-> 16, samples |-> 8],
             [readable |-> TRUE, rate |-> 16, samples |-> 48]}

NoAudio == [readable |-> FALSE, rate |-> 0, samples |-> 0]

(* label sequences for n observations: one label for all windows, a new    *)
(* label at every window, a new label at the last window, two labels in     *)
(* turn                                                                     *)
LabelInputs(n, k) ==
    {[i \in 1..n |-> c] : c \in 0..(k - 1)}
        \cup {[i \in 1..n |-> (i - 1) % k], [i \in 1..n |-> IF i = n THEN 1 ELSE 0],
              [i \in 1..n |-> IF i % 2 = 1 THEN k - 1 ELSE 2 % k]}

(* clusterings of an audio: scipy raises (always with fewer than k          *)
(* observations, possibly otherwise) or labels every observation            *)
NoClustering == [raises |-> TRUE, labels |-> <<>>]
ClusteringInputs(a, k) ==
    LET n == extract_audio_features(a)
    IN  {NoClustering}
            \cup (IF n < 0 \/ KMeansRaises(n, k) THEN {}
                  ELSE {[raises |-> FALSE, labels |-> l] : l \in LabelInputs(n, k)})

(* A word of the response is [word, speaker_label, start_time], the start  *)
(* time in milliseconds.                                                    *)
GLabels == {"1", "2"}
GStarts == {0, 5500}
GWords == [word : {W_hi, W_blank}, speaker_label : GLabels, start_time : GStarts]
NoResponse == [has_results |-> FALSE, words |-> <<>>]
Responses ==
    {NoResponse} \cup
    {[has_results |-> TRUE, words |-> ws] : ws \in UNION {[1..n -> GWords] : n \in 0..MaxGWords}}

Init ==
    /\ script \in {"whisper", "google", "audio"}
    /\ pc = "main"
    /\ argc \in {2, 3}
    /\ TEMP_DIR = None
    /\ fsDir = FALSE
    /\ fsFiles = {}
    /\ stdout = <<>>
    /\ stderr = <<>>
    /\ exitStatus = -1
    /\ outFile0 \in (IF script = "whisper" THEN {Absent, OldTranscript} ELSE {Absent})
    /\ outFile = outFile0
    /\ csvOpened = FALSE
    /\ audio \in (IF script = "whisper" THEN RunAudio ELSE {NoAudio})
    /\ clustering \in (IF script = "whisper" THEN ClusteringInputs(audio, num_speakers)
                       ELSE {NoClustering})
    /\ faults = {}
    /\ windows = <<>>
    /\ segs = <<>>
    /\ oracleEnded = FALSE
    /\ start_time = 0
    /\ speaker = None
    /\ lines = <<>>
    /\ response = NoResponse
    /\ cloud_url = FALSE

(* ---------------------------------------------------------------------- *)
(* transcribe_faster_whisper.py                                            *)
(* ---------------------------------------------------------------------- *)
Say(msg) == stderr' = Append(stderr, msg)
Say2(m1, m2) == stderr' = stderr \o <<m1, m2>>

(* a call raised, or the script asked to exit: "sink" the open, the chmod,  *)
(* a write or the close of the output csv, "unlink" the removal of the      *)
(* temporary file at the end of its with block, "cleanup" os.listdir in the *)
(* finally block, "other" anything else                                     *)
Fault(kinds) == faults' = faults \cup kinds

(* __main__: the argument count is checked before process_file is entered *)
W_Main ==
    /\ script = "whisper" /\ pc = "main"
    /\ IF argc # 2
       THEN /\ Say("Usage")
            /\ exitStatus' = 1
            /\ pc' = "done"
            /\ Fault({"other"})
       ELSE /\ pc' = "w_setup"
            /\ UNCHANGED <<stderr, exitStatus, faults>>
    /\ UNCHANGED <<inputVars, fsVars, stdout, csvVars, windows, loopVars, googleVars>>

(* setup_secure_environment: mkdtemp may raise, or os.chmod / os.umask     *)
(* after the directory was made and TEMP_DIR set                            *)
W_Setup ==
    /\ script = "whisper" /\ pc = "w_setup"
    /\ \/ /\ TEMP_DIR' = "tmp" /\ fsDir' = TRUE
          /\ pc' = "w_validate"
          /\ UNCHANGED faults
       \/ /\ UNCHANGED <<TEMP_DIR, fsDir>>
          /\ pc' = "w_except"
          /\ Fault({"other"})
       \/ /\ TEMP_DIR' = "tmp" /\ fsDir' = TRUE
          /\ pc' = "w_except"
          /\ Fault({"other"})
    /\ UNCHANGED <<inputVars, fsFiles, stdout, stderr, exitStatus, csvVars, windows,
                   loopVars, googleVars>>

(* validate_file_path: returns after copying the input, or reports and      *)
(* leaves through usage(), before or after the copy was created             *)
W_Validate ==
    /\ script = "whisper" /\ pc = "w_validate"
    /\ \/ /\ fsFiles' = fsFiles \cup {"input"}
          /\ pc' = "w_access"
          /\ UNCHANGED <<stderr, exitStatus, faults>>
       \/ /\ \E copied \in BOOLEAN :
                fsFiles' = IF copied THEN fsFiles \cup {"input"} ELSE fsFiles
          /\ Say2("Error", "Usage")
          /\ exitStatus' = 1
          /\ pc' = "w_finally"
          /\ Fault({"other"})
    /\ UNCHANGED <<inputVars, TEMP_DIR, fsDir, stdout, csvVars, windows, loopVars,
                   googleVars>>

(* the os.access check on the output directory *)
W_Access ==
    /\ script = "whisper" /\ pc = "w_access"
    /\ \/ pc' = "w_tempwav" /\ UNCHANGED faults
       \/ pc' = "w_except" /\ Fault({"other"})
    /\ UNCHANGED <<inputVars, fsVars, stdout, stderr, exitStatus, csvVars, windows,
                   loopVars, googleVars>>

(* entering the NamedTemporaryFile block *)
W_TempWav ==
    /\ script = "whisper" /\ pc = "w_tempwav"
    /\ \/ /\ fsFiles' = fsFiles \cup {"wav"}
          /\ pc' = "w_convert"
          /\ UNCHANGED faults
       \/ /\ UNCHANGED fsFiles
          /\ pc' = "w_except"
          /\ Fault({"other"})
    /\ UNCHANGED <<inputVars, TEMP_DIR, fsDir, stdout, stderr, exitStatus, csvVars,
                   windows, loopVars, googleVars>>

(* leaving a NamedTemporaryFile block closes the file, which unlinks it; an  *)
(* unlink that raises leaves the file, its exception going to the handler   *)
LeaveTemp(files, name, unlink_raises) == IF unlink_raises THEN files ELSE files \ {name}

(* an exception (of the given kinds) leaves the NamedTemporaryFile block *)
RaiseThroughTemp(name, kinds) ==
    \E unlink_raises \in BOOLEAN :
        /\ fsFiles' = LeaveTemp(fsFiles, name, unlink_raises)
        /\ Fault(kinds \cup (IF unlink_raises THEN {"unlink"} ELSE {}))

(* convert_to_wav; an exception leaves the with block *)
W_Convert ==
    /\ script = "whisper" /\ pc = "w_convert"
    /\ \/ /\ Say("Converting audio to WAV...")
          /\ pc' = "w_load"
          /\ UNCHANGED <<fsFiles, faults>>
       \/ /\ Say2("Converting audio to WAV...", "Error converting audio")
          /\ RaiseThroughTemp("wav", {"other"})
          /\ pc' = "w_except"
    /\ UNCHANGED <<inputVars, TEMP_DIR, fsDir, stdout, exitStatus, csvVars, windows,
                   loopVars, googleVars>>

(* transcribe_audio, up to the diarization: loading the model may raise *)
W_Load ==
    /\ script = "whisper" /\ pc = "w_load"
    /\ Say("Loading FasterWhisper model...")
    /\ \/ /\ pc' = "w_diarize"
          /\ UNCHANGED <<fsFiles, faults>>
       \/ /\ RaiseThroughTemp("wav", {"other"})
          /\ pc' = "w_except"
    /\ UNCHANGED <<inputVars, TEMP_DIR, fsDir, stdout, exitStatus, csvVars, windows,
                   loopVars, googleVars>>

(* speaker_segments = perform_diarization(audio_path) *)
W_Diarize ==
    /\ script = "whisper" /\ pc = "w_diarize"
    /\ windows' = perform_diarization(audio, clustering)
    /\ IF DiarizationFails(audio, clustering)
       THEN Say2("Extracting audio features...", "Warning: Speaker diarization failed")
       ELSE Say("Extracting audio features...")
    /\ pc' = "w_transcribe"
    /\ UNCHANGED <<inputVars, fsVars, stdout, exitStatus, csvVars, loopVars, googleVars,
                   faults>>

(* model.transcribe(...), which may raise *)
W_Transcribe ==
    /\ script = "whisper" /\ pc = "w_transcribe"
    /\ Say("Transcribing audio...")
    /\ \/ /\ pc' = "w_open"
          /\ UNCHANGED <<fsFiles, faults>>
       \/ /\ RaiseThroughTemp("wav", {"other"})
          /\ pc' = "w_except"
    /\ UNCHANGED <<inputVars, TEMP_DIR, fsDir, stdout, exitStatus, csvVars, windows,
                   loopVars, googleVars>>

(* the csv after an exception has left its with block.  Rows go through the *)
(* buffer of the file: the close wrote out all the data, or a write or the  *)
(* close raised and the file holds the first n rows of the data, followed   *)
(* (cut) by a part of the next row                                          *)
ClosedCsv(data, n, cut) ==
    [exists |-> TRUE, rows |-> SubSeq(data, 1, n), cut |-> cut /\ n < Len(data)]

(* the header is printed, the csv is opened (which truncates it), its mode  *)
(* is set and its header row is written; the open may raise, or a call      *)
(* after it                                                                 *)
W_Open ==
    /\ script = "whisper" /\ pc = "w_open"
    /\ stdout' = Append(stdout, HeaderLine)
    /\ \/ /\ outFile' = [exists |-> TRUE, rows |-> <<HeaderRow>>, cut |-> FALSE]
          /\ csvOpened' = TRUE
          /\ pc' = "w_loop"
          /\ UNCHANGED <<fsFiles, faults>>
       \/ /\ \E n \in 0..1, cut \in BOOLEAN : outFile' = ClosedCsv(<<HeaderRow>>, n, cut)
          /\ csvOpened' = TRUE
          /\ RaiseThroughTemp("wav", {"sink"})
          /\ pc' = "w_except"
       \/ /\ UNCHANGED <<outFile, csvOpened>>
          /\ RaiseThroughTemp("wav", {"sink"})
          /\ pc' = "w_except"
    /\ UNCHANGED <<inputVars, TEMP_DIR, fsDir, stderr, exitStatus, windows, loopVars,
                   googleVars>>

(* one iteration of "for segment in segments": the oracle yields a segment  *)
(* and the body runs (the row write may raise), or the oracle raises; an    *)
(* exception leaves the two with blocks, closing the csv (which may raise   *)
(* too)                                                                     *)
W_Segment ==
    /\ script = "whisper" /\ pc = "w_loop"
    /\ \/ /\ Len(segs) < MaxSegs
          /\ \E segment \in Segments :
                /\ segs' = Append(segs, segment)
                /\ start_time' = segment.start
                /\ speaker' = resolve_speaker(segment.start, windows)
                /\ IF SegmentEmits(segment)
                   THEN /\ stdout' = Append(stdout, ConsoleLine(SegmentLine(segment, windows)))
                        /\ lines' = Append(lines, SegmentLine(segment, windows))
                        /\ \/ /\ outFile' = [outFile EXCEPT !.rows =
                                    Append(@, CsvRow(SegmentLine(segment, windows)))]
                              /\ pc' = "w_loop"
                              /\ UNCHANGED <<fsFiles, faults>>
                           \/ /\ \E n \in 0..(Len(outFile.rows) + 1), cut \in BOOLEAN :
                                    outFile' = ClosedCsv(
                                        Append(outFile.rows,
                                               CsvRow(SegmentLine(segment, windows))),
                                        n, cut)
                              /\ RaiseThroughTemp("wav", {"sink"})
                              /\ pc' = "w_except"
                   ELSE /\ UNCHANGED <<stdout, lines, outFile, fsFiles, faults>>
                        /\ pc' = "w_loop"
          /\ UNCHANGED oracleEnded
       \/ /\ \/ /\ UNCHANGED outFile
                /\ RaiseThroughTemp("wav", {"other"})
             \/ /\ \E n \in 0..Len(outFile.rows), cut \in BOOLEAN :
                      outFile' = ClosedCsv(outFile.rows, n, cut)
                /\ RaiseThroughTemp("wav", {"other", "sink"})
          /\ pc' = "w_except"
          /\ UNCHANGED <<stdout, loopVars>>
    /\ UNCHANGED <<inputVars, TEMP_DIR, fsDir, stderr, exitStatus, csvOpened, windows,
                   googleVars>>

(* the generator is exhausted and both with blocks are left: the success    *)
(* report follows, or the close of the csv raises, or the unlink of the     *)
(* temporary file raises                                                    *)
W_End ==
    /\ script = "whisper" /\ pc = "w_loop"
    /\ oracleEnded' = TRUE
    /\ \/ /\ Say("Transcript saved to")
          /\ fsFiles' = LeaveTemp(fsFiles, "wav", FALSE)
          /\ pc' = "w_finally"
          /\ UNCHANGED <<outFile, faults>>
       \/ /\ \E n \in 0..Len(outFile.rows), cut \in BOOLEAN :
                outFile' = ClosedCsv(outFile.rows, n, cut)
          /\ RaiseThroughTemp("wav", {"sink"})
          /\ pc' = "w_except"
          /\ UNCHANGED stderr
       \/ /\ fsFiles' = LeaveTemp(fsFiles, "wav", TRUE)
          /\ Fault({"unlink"})
          /\ pc' = "w_except"
          /\ UNCHANGED <<outFile, stderr>>
    /\ UNCHANGED <<inputVars, TEMP_DIR, fsDir, stdout, exitStatus, csvOpened, windows,
                   segs, start_time, speaker, lines, googleVars>>

(* variant: the handler reports the error and does not exit *)
W_Except_noExit ==
    /\ script = "whisper" /\ pc = "w_except"
    /\ Say("Error processing file")
    /\ pc' = "w_finally"
    /\ UNCHANGED <<inputVars, fsVars, stdout, exitStatus, csvVars, windows, loopVars,
                   googleVars, faults>>

(* except Exception: report and sys.exit(1) *)
W_Except ==
    /\ script = "whisper" /\ pc = "w_except"
    /\ Say("Error processing file")
    /\ exitStatus' = 1
    /\ pc' = "w_finally"
    /\ UNCHANGED <<inputVars, fsVars, stdout, csvVars, windows, loopVars, googleVars, faults>>

(* the clean-up of the finally blocks (the same text in the three scripts). *)
(* An os.remove that raises is ignored and its file stays (kept); os.rmdir   *)
(* raises, and is ignored, when a file is left or for a reason of its own.   *)
CleanupFiles(dir, exists, files, kept) == IF dir # None /\ exists THEN kept ELSE files

CleanupDir(dir, exists, left, rmdir_raises) ==
    IF dir # None /\ exists THEN (left # {} \/ rmdir_raises) ELSE exists

(* os.listdir is outside the try blocks: when it raises the exception       *)
(* leaves the finally block and the process ends with status 1              *)
Finally ==
    /\ \/ /\ TEMP_DIR # None /\ fsDir
          /\ UNCHANGED <<fsFiles, fsDir>>
          /\ exitStatus' = 1
          /\ Fault({"cleanup"})
       \/ /\ \E kept \in SUBSET fsFiles, rmdir_raises \in BOOLEAN :
                /\ fsFiles' = CleanupFiles(TEMP_DIR, fsDir, fsFiles, kept)
                /\ fsDir' = CleanupDir(TEMP_DIR, fsDir, kept, rmdir_raises)
          /\ exitStatus' = IF exitStatus = -1 THEN 0 ELSE exitStatus
          /\ UNCHANGED faults
    /\ pc' = "done"
    /\ UNCHANGED TEMP_DIR

W_Finally ==
    /\ script = "whisper" /\ pc = "w_finally"
    /\ Finally
    /\ UNCHANGED <<inputVars, stdout, stderr, csvVars, windows, loopVars, googleVars>>

(* ---------------------------------------------------------------------- *)
(* transcribe.py                                                           *)
(* ---------------------------------------------------------------------- *)
(* print_transcript_line of transcribe.py: the lines it adds to the output *)
GLine(time, spk, text) ==
    IF text # <<>>
    THEN <<[time |-> format_duration(time * 1000), speaker |-> spk, text |-> text]>>
    ELSE <<>>

(* word.start_time.seconds: the whole seconds of the start time *)
Seconds(t) == t \div 1000

(* the word loop of print_transcript and the final flush *)
RECURSIVE PrintLoop(_, _, _, _, _)
PrintLoop(words, current_time, current_speaker, current_text, out) ==
    IF words = <<>> THEN out \o GLine(current_time, current_speaker, current_text)
    ELSE LET word == Head(words) IN
         IF word.speaker_label # current_speaker
         THEN PrintLoop(Tail(words), Seconds(word.start_time), word.speaker_label,
                        word.word \o <<" ">>,
                        out \o GLine(current_time, current_speaker, current_text))
         ELSE PrintLoop(Tail(words), current_time, current_speaker,
                        current_text \o word.word \o <<" ">>, out)

(* print_transcript: the transcript lines printed after the header *)
print_transcript(words) == PrintLoop(words, 0, None, <<>>, <<>>)

RECURSIVE ConsoleLines(_)
ConsoleLines(ls) ==
    IF ls = <<>> THEN <<>> ELSE <<ConsoleLine(Head(ls))>> \o ConsoleLines(Tail(ls))

(* the module body up to the try: storage.Client(), whose exception ends    *)
(* the process with a traceback, then the argument count                    *)
G_Main ==
    /\ script = "google" /\ pc = "main"
    /\ \/ /\ exitStatus' = 1
          /\ pc' = "done"
          /\ Fault({"other"})
          /\ UNCHANGED stderr
       \/ IF argc # 2
          THEN /\ Say("Usage")
               /\ exitStatus' = 1
               /\ pc' = "done"
               /\ Fault({"other"})
          ELSE /\ pc' = "g_setup"
               /\ UNCHANGED <<stderr, exitStatus, faults>>
    /\ UNCHANGED <<inputVars, fsVars, stdout, csvVars, windows, loopVars, googleVars>>

G_Setup ==
    /\ script = "google" /\ pc = "g_setup"
    /\ \/ /\ TEMP_DIR' = "tmp" /\ fsDir' = TRUE
          /\ pc' = "g_validate"
          /\ UNCHANGED faults
       \/ /\ UNCHANGED <<TEMP_DIR, fsDir>>
          /\ pc' = "g_except"
          /\ Fault({"other"})
       \/ /\ TEMP_DIR' = "tmp" /\ fsDir' = TRUE
          /\ pc' = "g_except"
          /\ Fault({"other"})
    /\ UNCHANGED <<inputVars, fsFiles, stdout, stderr, exitStatus, csvVars, windows,
                   loopVars, googleVars>>

G_Validate ==
    /\ script = "google" /\ pc = "g_validate"
    /\ \/ /\ fsFiles' = fsFiles \cup {"input"}
          /\ pc' = "g_tempflac"
          /\ UNCHANGED <<stderr, exitStatus, faults>>
       \/ /\ \E copied \in BOOLEAN :
                fsFiles' = IF copied THEN fsFiles \cup {"input"} ELSE fsFiles
          /\ Say2("Error", "Usage")
          /\ exitStatus' = 1
          /\ pc' = "g_finally"
          /\ Fault({"other"})
    /\ UNCHANGED <<inputVars, TEMP_DIR, fsDir, stdout, csvVars, windows, loopVars,
                   googleVars>>

G_TempFlac ==
    /\ script = "google" /\ pc = "g_tempflac"
    /\ \/ /\ fsFiles' = fsFiles \cup {"flac"}
          /\ pc' = "g_convert"
          /\ UNCHANGED faults
       \/ /\ UNCHANGED fsFiles
          /\ pc' = "g_except"
          /\ Fault({"other"})
    /\ UNCHANGED <<inputVars, TEMP_DIR, fsDir, stdout, stderr, exitStatus, csvVars,
                   windows, loopVars, googleVars>>

(* convert_to_flac returns the file or reports and re-raises.  Which one is *)
(* decided by the calls it makes (AudioSegment.from_file, the duration       *)
(* test, temp_flac_file.chmod, export).  temp_flac_file.chmod is looked up   *)
(* on the tempfile wrapper at run time; CPython's wrapper has no chmod, so   *)
(* there the raising branch is taken.  The returning branch is kept: it is   *)
(* what the text of the function provides for, and the code after it is      *)
(* reached only through it.                                                  *)
G_Convert ==
    /\ script = "google" /\ pc = "g_convert"
    /\ \/ /\ Say("Converting audio to FLAC...")
          /\ pc' = "g_upload"
          /\ UNCHANGED <<fsFiles, faults>>
       \/ /\ Say2("Converting audio to FLAC...", "Error converting audio")
          /\ RaiseThroughTemp("flac", {"other"})
          /\ pc' = "g_except"
    /\ UNCHANGED <<inputVars, TEMP_DIR, fsDir, stdout, exitStatus, csvVars, windows,
                   loopVars, googleVars>>

(* upload_file_to_bucket: prints its progress message, then uploads *)
G_Upload ==
    /\ script = "google" /\ pc = "g_upload"
    /\ stdout' = Append(stdout, "Uploading to Google Cloud...")
    /\ \/ /\ cloud_url' = TRUE
          /\ pc' = "g_transcribe"
          /\ UNCHANGED faults
       \/ /\ UNCHANGED cloud_url
          /\ pc' = "g_remove_raised"
          /\ Fault({"other"})
    /\ UNCHANGED <<inputVars, fsVars, stderr, exitStatus, csvVars, windows, loopVars,
                   response>>

(* transcribe_url: the response, or an exception *)
G_TranscribeUrl ==
    /\ script = "google" /\ pc = "g_transcribe"
    /\ Say("Transcribing audio...")
    /\ \/ /\ \E r \in Responses : response' = r
          /\ pc' = "g_print"
          /\ UNCHANGED faults
       \/ /\ UNCHANGED response
          /\ pc' = "g_remove_raised"
          /\ Fault({"other"})
    /\ UNCHANGED <<inputVars, fsVars, stdout, exitStatus, csvVars, windows, loopVars,
                   cloud_url>>

(* print_transcript(response); response.results[-1] raises on a response   *)
(* without results, after the header was printed                            *)
G_PrintTranscript ==
    /\ script = "google" /\ pc = "g_print"
    /\ IF response.has_results
       THEN /\ lines' = print_transcript(response.words)
            /\ stdout' = stdout \o <<HeaderLine>>
                            \o ConsoleLines(print_transcript(response.words))
            /\ pc' = "g_remove"
            /\ UNCHANGED faults
       ELSE /\ UNCHANGED lines
            /\ stdout' = Append(stdout, HeaderLine)
            /\ pc' = "g_remove_raised"
            /\ Fault({"other"})
    /\ UNCHANGED <<inputVars, fsVars, stderr, exitStatus, csvVars, windows, segs,
                   oracleEnded, start_time, speaker, googleVars>>

(* the inner finally: remove_file_from_bucket(cloud_url), a NameError when  *)
(* the upload raised; then the with block is left, whose unlink may raise   *)
G_Remove ==
    /\ script = "google" /\ pc \in {"g_remove", "g_remove_raised"}
    /\ \E remove_raises, unlink_raises \in BOOLEAN :
          /\ ~cloud_url => remove_raises
          /\ fsFiles' = LeaveTemp(fsFiles, "flac", unlink_raises)
          /\ Fault((IF remove_raises THEN {"other"} ELSE {})
                      \cup (IF unlink_raises THEN {"unlink"} ELSE {}))
          /\ IF pc = "g_remove_raised" \/ remove_raises \/ unlink_raises
             THEN pc' = "g_except"
             ELSE pc' = "g_finally"
    /\ UNCHANGED <<inputVars, TEMP_DIR, fsDir, stdout, stderr, exitStatus, csvVars,
                   windows, loopVars, googleVars>>

G_Except ==
    /\ script = "google" /\ pc = "g_except"
    /\ Say("Error processing file")
    /\ exitStatus' = 1
    /\ pc' = "g_finally"
    /\ UNCHANGED <<inputVars, fsVars, stdout, csvVars, windows, loopVars, googleVars, faults>>

G_Finally ==
    /\ script = "google" /\ pc = "g_finally"
    /\ Finally
    /\ UNCHANGED <<inputVars, stdout, stderr, csvVars, windows, loopVars, googleVars>>

(* ---------------------------------------------------------------------- *)
(* audio.py                                                                *)
(* ---------------------------------------------------------------------- *)
A_Main ==
    /\ script = "audio" /\ pc = "main"
    /\ IF argc # 3
       THEN /\ Say("Usage")
            /\ exitStatus' = 1
            /\ pc' = "done"
            /\ Fault({"other"})
       ELSE /\ pc' = "a_setup"
            /\ UNCHANGED <<stderr, exitStatus, faults>>
    /\ UNCHANGED <<inputVars, fsVars, stdout, csvVars, windows, loopVars, googleVars>>

A_Setup ==
    /\ script = "audio" /\ pc = "a_setup"
    /\ \/ /\ TEMP_DIR' = "tmp" /\ fsDir' = TRUE
          /\ pc' = "a_validate"
          /\ UNCHANGED faults
       \/ /\ UNCHANGED <<TEMP_DIR, fsDir>>
          /\ pc' = "a_except"
          /\ Fault({"other"})
       \/ /\ TEMP_DIR' = "tmp" /\ fsDir' = TRUE
          /\ pc' = "a_except"
          /\ Fault({"other"})
    /\ UNCHANGED <<inputVars, fsFiles, stdout, stderr, exitStatus, csvVars, windows,
                   loopVars, googleVars>>

(* validate_file_path of audio.py leaves through sys.exit(1) *)
A_Validate ==
    /\ script = "audio" /\ pc = "a_validate"
    /\ \/ /\ fsFiles' = fsFiles \cup {"input"}
          /\ pc' = "a_access"
          /\ UNCHANGED <<stderr, exitStatus, faults>>
       \/ /\ \E copied \in BOOLEAN :
                fsFiles' = IF copied THEN fsFiles \cup {"input"} ELSE fsFiles
          /\ Say("Error")
          /\ exitStatus' = 1
          /\ pc' = "a_finally"
          /\ Fault({"other"})
    /\ UNCHANGED <<inputVars, TEMP_DIR, fsDir, stdout, csvVars, windows, loopVars,
                   googleVars>>

A_Access ==
    /\ script = "audio" /\ pc = "a_access"
    /\ \/ pc' = "a_extract" /\ UNCHANGED faults
       \/ pc' = "a_except" /\ Fault({"other"})
    /\ UNCHANGED <<inputVars, fsVars, stdout, stderr, exitStatus, csvVars, windows,
                   loopVars, googleVars>>

(* step 1: the audio is written to temp_audio.wav in the temporary          *)
(* directory; a failure may come before or after the file exists            *)
A_Extract ==
    /\ script = "audio" /\ pc = "a_extract"
    /\ \/ /\ fsFiles' = fsFiles \cup {"temp_audio.wav"}
          /\ pc' = "a_export"
          /\ UNCHANGED faults
       \/ /\ \E written \in BOOLEAN :
                fsFiles' = IF written THEN fsFiles \cup {"temp_audio.wav"} ELSE fsFiles
          /\ pc' = "a_except"
          /\ Fault({"other"})
    /\ UNCHANGED <<inputVars, TEMP_DIR, fsDir, stdout, stderr, exitStatus, csvVars,
                   windows, loopVars, googleVars>>

(* step 2: export and the completion message *)
A_Export ==
    /\ script = "audio" /\ pc = "a_export"
    /\ \/ /\ stdout' = Append(stdout, "Conversion completed!")
          /\ pc' = "a_finally"
          /\ UNCHANGED faults
       \/ /\ UNCHANGED stdout
          /\ pc' = "a_except"
          /\ Fault({"other"})
    /\ UNCHANGED <<inputVars, fsVars, stderr, exitStatus, csvVars, windows, loopVars,
                   googleVars>>

A_Except ==
    /\ script = "audio" /\ pc = "a_except"
    /\ Say("Error converting file")
    /\ exitStatus' = 1
    /\ pc' = "a_finally"
    /\ UNCHANGED <<inputVars, fsVars, stdout, csvVars, windows, loopVars, googleVars, faults>>

A_Finally ==
    /\ script = "audio" /\ pc = "a_finally"
    /\ Finally
    /\ UNCHANGED <<inputVars, stdout, stderr, csvVars, windows, loopVars, googleVars>>

Next ==
    \/ W_Main \/ W_Setup \/ W_Validate \/ W_Access \/ W_TempWav \/ W_Convert
    \/ W_Load \/ W_Diarize \/ W_Transcribe \/ W_Open \/ W_Segment \/ W_End
    \/ W_Except \/ W_Finally
    \/ G_Main \/ G_Setup \/ G_Validate \/ G_TempFlac \/ G_Convert \/ G_Upload
    \/ G_TranscribeUrl \/ G_PrintTranscript \/ G_Remove \/ G_Except \/ G_Finally
    \/ A_Main \/ A_Setup \/ A_Validate \/ A_Access \/ A_Extract \/ A_Export
    \/ A_Except \/ A_Finally

Spec == Init /\ [][Next]_vars

Terminal == pc = "done"

Said(msg) == \E i \in 1..Len(stderr) : stderr[i] = msg

(* ---------------------------------------------------------------------- *)
(* The aligner on its own: any window list, any start time                 *)
(* ---------------------------------------------------------------------- *)
AlignEdges == {0, 500, 1000}
AlignLabels == {"1", "2"}
AlignWindows == {w \in AlignEdges \X AlignEdges \X AlignLabels : w[1] < w[2]}
AlignTimes == {0, 499, 500, 999, 1000}

Idle ==
    /\ argc = 2 /\ TEMP_DIR = None /\ fsDir = FALSE /\ fsFiles = {}
    /\ stdout = <<>> /\ stderr = <<>> /\ exitStatus = -1
    /\ outFile0 = Absent /\ outFile = Absent /\ csvOpened = FALSE
    /\ oracleEnded = FALSE /\ lines = <<>> /\ response = NoResponse /\ cloud_url = FALSE
    /\ faults = {}

InitAlign ==
    /\ script = "align" /\ pc = "call"
    /\ Idle
    /\ audio = NoAudio
    /\ clustering = NoClustering
    /\ windows \in UNION {[1..n -> AlignWindows] : n \in 0..MaxWins}
    /\ segs \in {<<[start |-> t, words |-> ws]>> : t \in AlignTimes, ws \in {<<>>, <<W_hi>>}}
    /\ start_time = 0
    /\ speaker = None

(* the speaker search of one loop iteration, applied to the segment *)
ResolveCall ==
    /\ script = "align" /\ pc = "call"
    /\ start_time' = segs[1].start
    /\ speaker' = resolve_speaker(segs[1].start, windows)
    /\ pc' = "done"
    /\ UNCHANGED <<inputVars, fsVars, stdout, stderr, exitStatus, csvVars, windows,
                   segs, oracleEnded, lines, googleVars, faults>>

NextAlign == ResolveCall

SpecAlign == InitAlign /\ [][NextAlign]_vars

(* ---------------------------------------------------------------------- *)
(* perform_diarization on its own: any sample count                        *)
(* ---------------------------------------------------------------------- *)
DiarRates == {8, 16}

InitDiar ==
    /\ script = "diarize" /\ pc = "call"
    /\ Idle
    /\ audio \in [readable : BOOLEAN, rate : DiarRates, samples : 0..MaxSamples]
    /\ clustering \in ClusteringInputs(audio, num_speakers)
    /\ windows = <<>>
    /\ segs = <<>>
    /\ start_time = 0
    /\ speaker = None

DiarizeCall ==
    /\ script = "diarize" /\ pc = "call"
    /\ windows' = perform_diarization(audio, clustering)
    /\ IF DiarizationFails(audio, clustering)
       THEN Say2("Extracting audio features...", "Warning: Speaker diarization failed")
       ELSE Say("Extracting audio features...")
    /\ pc' = "done"
    /\ UNCHANGED <<inputVars, fsVars, stdout, exitStatus, csvVars, loopVars, googleVars,
                   faults>>

NextDiar == DiarizeCall

SpecDiar == InitDiar /\ [][NextDiar]_vars

(* ---------------------------------------------------------------------- *)
(* Properties                                                              *)
(* ---------------------------------------------------------------------- *)
SegSpeaker(i) == resolve_speaker(segs[i].start, windows)

WhisperSucceeded == script = "whisper" /\ Terminal /\ exitStatus = 0

(* the segments came in the order of their start times *)
TimeOrdered == \A i \in 2..Len(segs) : segs[i - 1].start <= segs[i].start

(* C1: consecutive segments that resolve to the same speaker are merged     *)
(* into one line, so a finished run has as many lines as there are maximal  *)
(* same-speaker runs of segments (all segments with non-blank text).        *)
C1_MergedRuns ==
    (WhisperSucceeded /\ TimeOrdered /\ \A i \in 1..Len(segs) : SegmentEmits(segs[i]))
        => Len(lines) =
             Cardinality({i \in 1..Len(segs) : i = 1 \/ SegSpeaker(i) # SegSpeaker(i - 1)})

(* the line a segment gets when no speaker is known *)
UnknownLine(segment) ==
    [time |-> format_duration(segment.start), speaker |-> "Unknown",
     text |-> Strip(SegmentText(segment))]

RECURSIVE UnknownLines(_)
UnknownLines(ss) ==
    IF ss = <<>> THEN <<>>
    ELSE (IF Strip(SegmentText(Head(ss))) # <<>> THEN <<UnknownLine(Head(ss))>> ELSE <<>>)
             \o UnknownLines(Tail(ss))

RECURSIVE CsvRows(_)
CsvRows(ls) == IF ls = <<>> THEN <<>> ELSE <<CsvRow(Head(ls))>> \o CsvRows(Tail(ls))

(* the csv with the header row and a row for every printed line *)
CompleteCsv == [exists |-> TRUE, rows |-> <<HeaderRow>> \o CsvRows(lines), cut |-> FALSE]

(* the output csv of the run is not opened, or is not the complete csv *)
CsvBehind ==
    /\ script = "whisper"
    /\ stdout # <<>>
    /\ \/ ~csvOpened
       \/ outFile # CompleteCsv

(* the open, a write or the close of the output csv raised *)
SinkFailed == script = "whisper" /\ "sink" \in faults

(* the local-model run goes on to the end of the segments and then to the   *)
(* success report, with the complete csv and the temporary file removed;    *)
(* no exit is requested before the clean-up, and the final status is 0      *)
EndsSuccessfully ==
    /\ pc \in {"w_transcribe", "w_open", "w_loop", "w_finally", "done"}
    /\ exitStatus \in {-1, 0}
    /\ pc \in {"w_finally", "done"} =>
          /\ oracleEnded
          /\ Said("Transcript saved to")
          /\ ~Said("Error processing file")
          /\ outFile = CompleteCsv
          /\ "wav" \notin fsFiles
    /\ pc = "w_finally" => exitStatus = -1
    /\ Terminal => exitStatus = 0

(* the audio for which feature extraction or kmeans is bound to raise *)
MustFail ==
    \/ extract_audio_features(audio) < 0
    \/ KMeansRaises(extract_audio_features(audio), num_speakers)

(* perform_diarization caught an exception: it wrote its warning *)
DiarizationFailed ==
    /\ script = "whisper"
    /\ Said("Warning: Speaker diarization failed")

(* C2: when feature extraction or clustering raises, the window list is     *)
(* empty, a warning is written, every segment with non-blank text gets one  *)
(* line with speaker Unknown, and the run, unless some other call raises,    *)
(* consumes every segment and ends with the success report, the complete    *)
(* csv and status 0.                                                        *)
C2_DiarizationFailureNonFatal ==
    /\ (script = "whisper" /\ Said("Extracting audio features...") /\ MustFail)
          => DiarizationFailed
    /\ DiarizationFailed =>
        /\ windows = <<>>
        /\ lines = UnknownLines(segs)
        /\ stdout # <<>> => stdout = <<HeaderLine>> \o ConsoleLines(lines)
        /\ faults = {} => EndsSuccessfully

C2_Witness ==
    /\ DiarizationFailed /\ Terminal /\ exitStatus = 0
    /\ faults = {}
    /\ stdout = <<HeaderLine, "00:00:00.000;Unknown;yo hi">>
    /\ outFile.rows = <<HeaderRow, <<"00:00:00.000", "Unknown", "yo hi">>>>

MatchingWindows(ws, t) == {i \in 1..Len(ws) : ws[i][1] <= t /\ t < ws[i][2]}

SetMin(S) == CHOOSE x \in S : \A y \in S : x <= y

Resolved ==
    \/ script = "align" /\ pc = "done"
    \/ script = "whisper" /\ segs # <<>>

(* C3: the resolved speaker is the label of the first window, in list       *)
(* order, with start <= t < end, for t the segment's start time, and it is   *)
(* None exactly when no window contains t (an empty list included).          *)
C3_FirstContainingWindow ==
    Resolved =>
        LET t == segs[Len(segs)].start
            m == MatchingWindows(windows, t)
        IN  /\ start_time = t
            /\ (speaker = None) <=> (m = {})
            /\ m # {} => speaker = windows[SetMin(m)][3]

C3_Witness ==
    /\ script = "align" /\ pc = "done"
    /\ LET m == MatchingWindows(windows, start_time)
       IN  /\ Cardinality(m) >= 2
           /\ 1 \notin m
           /\ \E i \in m : windows[i][3] # windows[SetMin(m)][3]
           /\ speaker = windows[SetMin(m)][3]

WindowLabels == {windows[i][3] : i \in 1..Len(windows)}

(* the speaker fields of the lines printed and of the rows in the csv *)
EmittedSpeakers ==
    {lines[i].speaker : i \in 1..Len(lines)}
        \cup (IF csvOpened THEN {outFile.rows[i][2] : i \in 2..Len(outFile.rows)} ELSE {})

(* C4: the speaker field of every line of the local-model script, on the    *)
(* console and in the csv, is a window label itself (the cluster integer)   *)
(* or Unknown.                                                              *)
C4_SpeakerIsWindowLabel ==
    script = "whisper" => EmittedSpeakers \subseteq (WindowLabels \cup {"Unknown"})

(* C5: in every terminal state the temporary directory and every file       *)
(* created in it are gone.                                                  *)
C5_TempFilesRemoved ==
    (script \in {"whisper", "google", "audio"} /\ Terminal) => (~fsDir /\ fsFiles = {})

(* C6: once the open of the csv, a row write or the close of the csv has    *)
(* raised, nothing more is attempted, the success report is never written,  *)
(* and the run ends with a diagnostic and exit status 1; a csv that is not   *)
(* opened or lacks a part of a printed line comes from such a failure.       *)
C6_SinkFailureFatal ==
    /\ CsvBehind => SinkFailed
    /\ SinkFailed =>
        /\ pc \in {"w_except", "w_finally", "done"}
        /\ ~Said("Transcript saved to")
        /\ pc \in {"w_finally", "done"} =>
              (Said("Error processing file") /\ exitStatus = 1)

C6_Witness ==
    /\ SinkFailed /\ Terminal
    /\ csvOpened
    /\ oracleEnded
    /\ Len(lines) = 2
    /\ Len(outFile.rows) = 2
    /\ outFile.cut
    /\ exitStatus = 1

(* C7: a run that aborted after opening the csv leaves the output path      *)
(* either as it was before the run or holding every row of the input.        *)
C7_NoPartialTranscript ==
    (script = "whisper" /\ Terminal /\ csvOpened /\ exitStatus = 1) =>
        \/ outFile = outFile0
        \/ oracleEnded /\ outFile = CompleteCsv

(* C8: standard output of a transcription script holds the header line      *)
(* followed only by transcript lines.                                       *)
C8_StdoutOnlyTranscript ==
    (script \in {"whisper", "google"} /\ stdout # <<>>) =>
        stdout = <<HeaderLine>> \o ConsoleLines(lines)

(* C9: the windows returned by diarization are [i*W, (i+1)*W) and their     *)
(* number n satisfies |n*W - D| <= W for a waveform of duration D            *)
(* (samples / rate seconds; compared in units of 1/(1000*rate) s).           *)
C9_WindowsCoverDuration ==
    (script = "diarize" /\ pc = "done" /\ windows # <<>>) =>
        /\ \A i \in 1..Len(windows) :
              /\ windows[i][1] = (i - 1) * window_size
              /\ windows[i][2] = i * window_size
        /\ LET covered == Len(windows) * window_size * audio.rate
               duration == audio.samples * 1000
           IN  /\ covered - duration <= window_size * audio.rate
               /\ duration - covered <= window_size * audio.rate

(* C10: for a feature sequence of length N with 1 <= N < k the clusterer    *)
(* returns N windows with labels in 1..N.                                   *)
C10_FewerWindowsThanClusters ==
    (script = "diarize" /\ pc = "done"
        /\ extract_audio_features(audio) >= 1
        /\ extract_audio_features(audio) < num_speakers) =>
        /\ Len(windows) = extract_audio_features(audio)
        /\ \A i \in 1..Len(windows) :
              windows[i][3] \in {ToString(j) : j \in 1..extract_audio_features(audio)}

(* the segments that got a line, in input order *)
EmittingSegs == SelectSeq(segs, SegmentEmits)

(* the cloud script has printed the transcript of its response *)
GPrinted == script = "google" /\ response.has_results /\ pc # "g_print"

(* indices of the words that start a same-speaker run, in order *)
RunStarts(words) ==
    LET StartsRun(i) == i = 1 \/ words[i].speaker_label # words[i - 1].speaker_label
    IN  SelectSeq([i \in 1..Len(words) |-> i], StartsRun)

(* C11: every emitted line carries the exact start time of the first        *)
(* segment (word) of the run it was built from, and its speaker; there is   *)
(* one line per run, in input order, so adjacent segments with different    *)
(* speakers give separate lines, each at its own start time.                *)
C11_LineTimeIsRunStart ==
    /\ script = "whisper" =>
          /\ Len(lines) = Len(EmittingSegs)
          /\ \A i \in 1..Len(lines) :
                lines[i].time = format_duration(EmittingSegs[i].start)
    /\ GPrinted =>
          LET starts == RunStarts(response.words)
          IN  /\ Len(lines) = Len(starts)
              /\ \A i \in 1..Len(lines) :
                    /\ lines[i].time = format_duration(response.words[starts[i]].start_time)
                    /\ lines[i].speaker = response.words[starts[i]].speaker_label

(* the characters of a text that are not whitespace *)
NoSpaces(text) == LET NotSpace(c) == c \notin Whitespace IN SelectSeq(text, NotSpace)

(* the concatenation of a sequence of texts *)
RECURSIVE Flatten(_)
Flatten(texts) == IF texts = <<>> THEN <<>> ELSE Head(texts) \o Flatten(Tail(texts))

LineTexts == [i \in 1..Len(lines) |-> lines[i].text]

(* the input texts of the two scripts, in input order *)
WhisperInputTexts == [i \in 1..Len(segs) |-> Flatten(segs[i].words)]
GoogleInputTexts == [i \in 1..Len(response.words) |-> response.words[i].word]

(* the words of the run that starts at the i-th run start, each followed    *)
(* by a space                                                               *)
RunText(words, starts, i) ==
    LET last == IF i = Len(starts) THEN Len(words) ELSE starts[i + 1] - 1
    IN  Flatten([k \in 1..(last - starts[i] + 1) |-> words[starts[i] + k - 1].word \o <<" ">>])

(* print_transcript was called: the header is on standard output *)
GCalled == script = "google" /\ \E i \in 1..Len(stdout) : stdout[i] = HeaderLine

(* C12: once the input is consumed the last accumulator is flushed: every   *)
(* input segment with non-blank text is in exactly one emitted line, the    *)
(* emitted texts concatenated equal the input texts concatenated (up to     *)
(* whitespace), and an empty input gives the header alone and no failure    *)
(* of the aggregation.                                                      *)
C12_FlushNoLoss ==
    /\ (script = "whisper" /\ oracleEnded) =>
          /\ Len(lines) = Len(EmittingSegs)
          /\ \A i \in 1..Len(lines) : lines[i].text = Strip(SegmentText(EmittingSegs[i]))
          /\ NoSpaces(Flatten(LineTexts)) = NoSpaces(Flatten(WhisperInputTexts))
          /\ segs = <<>> => stdout = <<HeaderLine>>
          /\ faults = {} => EndsSuccessfully
    /\ GCalled =>
          /\ Len(lines) = Len(RunStarts(response.words))
          /\ \A i \in 1..Len(lines) :
                lines[i].text = RunText(response.words, RunStarts(response.words), i)
          /\ NoSpaces(Flatten(LineTexts)) = NoSpaces(Flatten(GoogleInputTexts))
          /\ response.words = <<>> =>
                /\ stdout[Len(stdout)] = HeaderLine
                /\ pc # "g_remove_raised"

(* C13: no emitted line, on the console or in the records file, has a text  *)
(* that is empty after stripping whitespace, whatever the input texts are.  *)
C13_NoEmptyTextLine ==
    \A i \in 1..Len(lines) : Strip(lines[i].text) # <<>>

====
